---- MODULE Spec2Model ----
(***************************************************************************)
(* State-machine model of the two caches of src/cache.py:                  *)
(*   AttestationCache (attestation_cache, seen_in_block) and               *)
(*   BlockCache (blocks, accepted, outstanding).                           *)
(* Python dicts are functions whose DOMAIN is the key set, Python lists    *)
(* are sequences, Python sets are sets.  Every method is one action; the   *)
(* generators are consumed to the end inside the action that calls them.   *)
(* alast and blast record the most recent call on each cache: its name,    *)
(* its arguments, what it returned and the exception it raised, if any.    *)
(* added counts the add_attestation calls.  key_order is the insertion     *)
(* order of the keys of attestation_cache, which is the order a Python     *)
(* dict iterates in.  history holds the attestations handed to             *)
(* add_attestation for as long as no other call has changed the cache.     *)
(***************************************************************************)
EXTENDS Integers, Sequences, FiniteSets, TLC

VARIABLES attestation_cache, seen_in_block, alast, added, key_order, history,
          blocks, accepted, outstanding, blast

avars == <<attestation_cache, seen_in_block, alast, added, key_order, history>>
bvars == <<blocks, accepted, outstanding, blast>>
vars == <<attestation_cache, seen_in_block, alast, added, key_order, history,
          blocks, accepted, outstanding, blast>>

(* ------------------------------ bounds --------------------------------- *)
\* highest slot an attestation carries
MaxSlot == 1
\* highest committee index an attestation carries
MaxCommittee == 1
\* length of aggregation_bits (positions 0 .. CommitteeSize-1)
CommitteeSize == 2
\* add_attestation is called at most this many times
MaxAttestations == 2
\* positions of the committee the redundancy pruning is exercised on
WideCommitteeSize == 3
\* length of the chain of blocks on top of genesis
ChainLen == 3
\* the empty entry of accepted, and the absent root argument of add_block
None == -1

Slots == 0..MaxSlot
Committees == 0..MaxCommittee
Positions == 0..(CommitteeSize - 1)
\* a Bitlist: element i (1-based) is the bit of position i-1
Bitlists == [1..CommitteeSize -> BOOLEAN]
Attestations == [slot : Slots, index : Committees, aggregation_bits : Bitlists]
\* attestations of committee 0 with WideCommitteeSize positions
WideBitlists == [1..WideCommitteeSize -> BOOLEAN]
WideAttestations == [slot : Slots, index : {0}, aggregation_bits : WideBitlists]
\* arguments of cleanup(slot, keep_slots)
CleanupSlots == 0..(MaxSlot + 1)
KeepSlots == 0..MaxSlot

(* ------------------------------ helpers -------------------------------- *)
\* dict()
EmptyDict == [k \in {} |-> {}]

\* d[k] = v
Put(d, k, v) == [x \in (DOMAIN d) \cup {k} |-> IF x = k THEN v ELSE d[x]]

\* del d[k] for every k in ks
Drop(d, ks) == [x \in (DOMAIN d) \ ks |-> d[x]]

\* the elements of a list, as a set
Range(s) == {s[i] : i \in DOMAIN s}

\* helpers.indices_inside_committee: the positions (0-based) of the set bits,
\* in ascending order
indices_inside_committee(bits) ==
    LET RECURSIVE Walk(_)
        Walk(i) == IF i > Len(bits) THEN <<>>
                   ELSE (IF bits[i] THEN <<i - 1>> ELSE <<>>) \o Walk(i + 1)
    IN Walk(1)

\* helpers.popcnt: the number of set bits
popcnt(bits) == Cardinality({i \in DOMAIN bits : bits[i]})

(* -------------------------- AttestationCache --------------------------- *)
\* the record of the most recent call: its name, arguments and outcome
NoCall == [op |-> "init", slot |-> 0, committee |-> 0, keep_slots |-> 0,
           bits |-> <<>>, from_block |-> FALSE,
           status |-> "ok", ret |-> <<>>, dropped |-> {}, resorted |-> {},
           again |-> FALSE]

\* history once a call other than add_attestation has been made on the cache
Forgotten == [intact |-> FALSE, adds |-> <<>>]

AInit ==
    /\ attestation_cache = EmptyDict
    /\ seen_in_block = EmptyDict
    /\ alast = NoCall
    /\ added = 0
    /\ key_order = <<>>
    /\ history = [intact |-> TRUE, adds |-> <<>>]

\* the keys <<slot, committee>> of the cache in the order the nested dicts
\* iterate them: slots in the order they were first inserted, the committees of
\* a slot in the order they were inserted
RECURSIVE iteration_order(_)
iteration_order(order) ==
    IF order = <<>> THEN <<>>
    ELSE LET slot == Head(order)[1]
         IN SelectSeq(order, LAMBDA k : k[1] = slot)
            \o iteration_order(SelectSeq(order, LAMBDA k : k[1] # slot))

\* lines 21-24: a key that is not in the dict yet is inserted after the others
order_append(order, attestation) ==
    IF <<attestation.slot, attestation.index>> \in Range(order) THEN order
    ELSE Append(order, <<attestation.slot, attestation.index>>)

\* lines 21-25: the attestation is appended to attestation_cache[slot][committee]
CacheAppend(cache, attestation) ==
    LET slot == attestation.slot
        committee == attestation.index
        c1 == IF slot \notin DOMAIN cache THEN Put(cache, slot, EmptyDict) ELSE cache
        c2 == IF committee \notin DOMAIN c1[slot]
              THEN Put(c1, slot, Put(c1[slot], committee, <<>>)) ELSE c1
    IN Put(c2, slot, Put(c2[slot], committee, Append(c2[slot][committee], attestation)))

\* lines 27-34 with the set of line 33 replaced by the positions of the new
\* attestation instead of extended by them
SeenAdd_overwrite(seen, attestation) ==
    LET slot == attestation.slot
        committee == attestation.index
        indices == indices_inside_committee(attestation.aggregation_bits)
        s1 == IF slot \notin DOMAIN seen THEN Put(seen, slot, EmptyDict) ELSE seen
    IN Put(s1, slot, Put(s1[slot], committee, Range(indices)))

\* lines 27-34: the positions of the attestation are added to seen_in_block[slot][committee]
SeenAdd(seen, attestation) ==
    LET slot == attestation.slot
        committee == attestation.index
        indices == indices_inside_committee(attestation.aggregation_bits)
        s1 == IF slot \notin DOMAIN seen THEN Put(seen, slot, EmptyDict) ELSE seen
        s2 == IF committee \notin DOMAIN s1[slot]
              THEN Put(s1, slot, Put(s1[slot], committee, {})) ELSE s1
    IN Put(s2, slot, Put(s2[slot], committee, s2[slot][committee] \cup Range(indices)))

add_attestation(attestation, from_block) ==
    /\ UNCHANGED bvars
    /\ added < MaxAttestations
    /\ added' = added + 1
    /\ attestation_cache' = CacheAppend(attestation_cache, attestation)
    /\ seen_in_block' = IF from_block THEN SeenAdd(seen_in_block, attestation)
                        ELSE seen_in_block
    /\ key_order' = order_append(key_order, attestation)
    /\ history' = IF history.intact
                  THEN [history EXCEPT !.adds = Append(@, attestation)] ELSE history
    /\ alast' = [NoCall EXCEPT !.op = "add_attestation", !.slot = attestation.slot,
                               !.committee = attestation.index,
                               !.bits = attestation.aggregation_bits,
                               !.from_block = from_block]

\* lines 51-59 with include assigned from every index in turn (include = index not
\* in seen_indices) instead of set once: the last position decides
RECURSIVE yield_unseen_last_index(_, _)
yield_unseen_last_index(attestations, seen_indices) ==
    IF attestations = <<>> THEN [ret |-> <<>>, seen_indices |-> seen_indices]
    ELSE LET attestation == Head(attestations)
             indices == indices_inside_committee(attestation.aggregation_bits)
             include == indices # <<>> /\ indices[Len(indices)] \notin seen_indices
             rest == yield_unseen_last_index(Tail(attestations),
                                             seen_indices \cup Range(indices))
         IN [ret |-> IF include THEN <<attestation>> \o rest.ret ELSE rest.ret,
             seen_indices |-> rest.seen_indices]

\* lines 51-59 with line 57 (seen_indices.add) left out
RECURSIVE yield_unseen_no_add(_, _)
yield_unseen_no_add(attestations, seen_indices) ==
    IF attestations = <<>> THEN [ret |-> <<>>, seen_indices |-> seen_indices]
    ELSE LET attestation == Head(attestations)
             indices_in_attestation == indices_inside_committee(attestation.aggregation_bits)
             include == \E i \in DOMAIN indices_in_attestation :
                            indices_in_attestation[i] \notin seen_indices
             rest == yield_unseen_no_add(Tail(attestations), seen_indices)
         IN [ret |-> (IF include THEN <<attestation>> ELSE <<>>) \o rest.ret,
             seen_indices |-> rest.seen_indices]

\* lines 51-59: the loop over the cached list; seen_indices is the running set.
\* Returns the yielded attestations and the final running set.
RECURSIVE yield_unseen(_, _)
yield_unseen(attestations, seen_indices) ==
    IF attestations = <<>> THEN [ret |-> <<>>, seen_indices |-> seen_indices]
    ELSE LET attestation == Head(attestations)
             indices_in_attestation == indices_inside_committee(attestation.aggregation_bits)
             include == \E i \in DOMAIN indices_in_attestation :
                            indices_in_attestation[i] \notin seen_indices
             rest == yield_unseen(Tail(attestations),
                                  seen_indices \cup Range(indices_in_attestation))
         IN [ret |-> (IF include THEN <<attestation>> ELSE <<>>) \o rest.ret,
             seen_indices |-> rest.seen_indices]

\* lines 47-49 without set(...): the running set is seen_in_block[slot][committee] itself
query_unseen_aliased(cache, seen, slot, committee) ==
    LET attestations == IF slot \in DOMAIN cache /\ committee \in DOMAIN cache[slot]
                        THEN cache[slot][committee] ELSE <<>>
        present == slot \in DOMAIN seen /\ committee \in DOMAIN seen[slot]
        run == yield_unseen(attestations, IF present THEN seen[slot][committee] ELSE {})
    IN [ret |-> run.ret,
        seen_in_block |-> IF present
                          THEN Put(seen, slot, Put(seen[slot], committee, run.seen_indices))
                          ELSE seen]

\* lines 44-59: the list and a COPY of the seen set are taken, the loop runs on
\* them; seen_in_block itself is what it was
query_unseen(cache, seen, slot, committee) ==
    LET attestations == IF slot \in DOMAIN cache /\ committee \in DOMAIN cache[slot]
                        THEN cache[slot][committee] ELSE <<>>
        seen_indices == IF slot \in DOMAIN seen /\ committee \in DOMAIN seen[slot]
                        THEN seen[slot][committee] ELSE {}
        run == yield_unseen(attestations, seen_indices)
    IN [ret |-> run.ret, seen_in_block |-> seen]

attestations_with_unseen_validators(slot, committee) ==
    LET r == query_unseen(attestation_cache, seen_in_block, slot, committee)
    IN /\ UNCHANGED bvars
       /\ attestation_cache' = attestation_cache
       /\ seen_in_block' = r.seen_in_block
       /\ UNCHANGED <<added, key_order, history>>
       /\ alast' = [NoCall EXCEPT !.op = "attestations_with_unseen_validators",
                                  !.slot = slot, !.committee = committee, !.ret = r.ret,
                                  !.again = (alast.op = "attestations_with_unseen_validators"
                                             /\ alast.slot = slot
                                             /\ alast.committee = committee)]

\* list.remove(x) removing every element equal to x instead of the first
list_remove_all(list, x) == SelectSeq(list, LAMBDA e : e # x)

\* list.remove(x): the first element equal to x is removed
RECURSIVE list_remove(_, _)
list_remove(list, x) ==
    IF list = <<>> THEN <<>>
    ELSE IF Head(list) = x THEN Tail(list)
    ELSE <<Head(list)>> \o list_remove(Tail(list), x)

remove_attestation(slot, committee, attestation) ==
    /\ UNCHANGED bvars
    /\ seen_in_block' = seen_in_block
    /\ UNCHANGED <<added, key_order>>
    /\ history' = Forgotten
    /\ IF slot \notin DOMAIN attestation_cache
          \/ committee \notin DOMAIN attestation_cache[slot]
       THEN /\ attestation_cache' = attestation_cache
            /\ alast' = [NoCall EXCEPT !.op = "remove_attestation", !.slot = slot,
                                       !.committee = committee,
                                       !.bits = attestation.aggregation_bits, !.status = "KeyError"]
       ELSE IF attestation \notin Range(attestation_cache[slot][committee])
       THEN /\ attestation_cache' = attestation_cache
            /\ alast' = [NoCall EXCEPT !.op = "remove_attestation", !.slot = slot,
                                       !.committee = committee,
                                       !.bits = attestation.aggregation_bits, !.status = "ValueError"]
       ELSE /\ attestation_cache' =
                  Put(attestation_cache, slot,
                      Put(attestation_cache[slot], committee,
                          list_remove(attestation_cache[slot][committee], attestation)))
            /\ alast' = [NoCall EXCEPT !.op = "remove_attestation", !.slot = slot,
                                       !.committee = committee,
                                       !.bits = attestation.aggregation_bits]

\* lines 61-66 with < for <= in the comparison against max_slot
RECURSIVE triples_below(_, _, _)
triples_below(cache, order, max_slot) ==
    IF order = <<>> THEN <<>>
    ELSE LET slot == Head(order)[1]
             committeee == Head(order)[2]
             attestation_list == cache[slot][committeee]
         IN (IF slot < max_slot
             THEN [i \in DOMAIN attestation_list |->
                      <<slot, committeee, attestation_list[i]>>]
             ELSE <<>>)
            \o triples_below(cache, Tail(order), max_slot)

\* lines 61-66: order is the iteration order of the keys
RECURSIVE triples(_, _, _)
triples(cache, order, max_slot) ==
    IF order = <<>> THEN <<>>
    ELSE LET slot == Head(order)[1]
             committeee == Head(order)[2]
             attestation_list == cache[slot][committeee]
         IN (IF slot <= max_slot
             THEN [i \in DOMAIN attestation_list |->
                      <<slot, committeee, attestation_list[i]>>]
             ELSE <<>>)
            \o triples(cache, Tail(order), max_slot)

\* lines 76-85 with <= for < in the two comparisons against lower_bound
clean_old_slots_inclusive(cache, seen, slot, keep_slots) ==
    IF slot > keep_slots
    THEN LET lower_bound == slot - keep_slots
         IN [attestation_cache |-> Drop(cache, {k \in DOMAIN cache : k <= lower_bound}),
             seen_in_block |-> Drop(seen, {k \in DOMAIN seen : k <= lower_bound})]
    ELSE [attestation_cache |-> cache, seen_in_block |-> seen]

\* lines 75-85
clean_old_slots(cache, seen, slot, keep_slots) ==
    IF slot > keep_slots
    THEN LET lower_bound == slot - keep_slots
         IN [attestation_cache |-> Drop(cache, {k \in DOMAIN cache : k < lower_bound}),
             seen_in_block |-> Drop(seen, {k \in DOMAIN seen : k < lower_bound})]
    ELSE [attestation_cache |-> cache, seen_in_block |-> seen]

\* line 90: the largest sort key of the list
largest_popcnt(attestations) ==
    LET keys == {popcnt(attestations[i].aggregation_bits) : i \in DOMAIN attestations}
                   \cup {0}
    IN CHOOSE n \in keys : \A m \in keys : m <= n

\* line 90 without reverse=True: ascending participant count
sort_by_popcnt_ascending(attestations) ==
    LET RECURSIVE Upto(_)
        Upto(n) == IF n < 0 THEN <<>>
                   ELSE Upto(n - 1) \o SelectSeq(attestations,
                                                 LAMBDA a : popcnt(a.aggregation_bits) = n)
    IN Upto(largest_popcnt(attestations))

\* line 90: list.sort(key=popcnt, reverse=True); the sort is stable
sort_by_popcnt(attestations) ==
    LET RECURSIVE From(_)
        From(n) == IF n < 0 THEN <<>>
                   ELSE SelectSeq(attestations,
                                  LAMBDA a : popcnt(a.aggregation_bits) = n) \o From(n - 1)
    IN From(largest_popcnt(attestations))

\* lines 95-98: every position of every kept attestation
RECURSIVE keep_indexes(_)
keep_indexes(keep) ==
    IF keep = <<>> THEN {}
    ELSE Range(indices_inside_committee(Head(keep).aggregation_bits))
         \cup keep_indexes(Tail(keep))

\* lines 99-100: any(index for index in current_attestation_indexes
\*                   if index not in keep_indexes).
\* any() tests the truth value of each generated element, which is the index itself:
\* index 0 is false
keep_current_attestation(attestation, keep) ==
    LET current_attestation_indexes == indices_inside_committee(attestation.aggregation_bits)
    IN \E i \in DOMAIN current_attestation_indexes :
          /\ current_attestation_indexes[i] \notin keep_indexes(keep)
          /\ current_attestation_indexes[i] # 0

\* lines 91-102: the greedy pass over the sorted list
RECURSIVE greedy_keep(_, _)
greedy_keep(attestations, keep) ==
    IF attestations = <<>> THEN keep
    ELSE greedy_keep(Tail(attestations),
                     IF keep_current_attestation(Head(attestations), keep)
                     THEN Append(keep, Head(attestations)) ELSE keep)

\* lines 87-103
clean_redundant_attestations(cache) ==
    [slot \in DOMAIN cache |->
        [committee \in DOMAIN cache[slot] |->
            greedy_keep(sort_by_popcnt(cache[slot][committee]), <<>>)]]

\* lines 71-73
cleanup(slot, keep_slots) ==
    LET old == clean_old_slots(attestation_cache, seen_in_block, slot, keep_slots)
    IN /\ UNCHANGED bvars
       /\ attestation_cache' = clean_redundant_attestations(old.attestation_cache)
       /\ seen_in_block' = old.seen_in_block
       /\ added' = added
       /\ key_order' = SelectSeq(key_order,
                                 LAMBDA k : k[1] \in DOMAIN old.attestation_cache)
       /\ history' = Forgotten
       /\ alast' = [NoCall EXCEPT !.op = "cleanup", !.slot = slot,
                                  !.keep_slots = keep_slots,
                                  !.resorted =
                                      {k \in Range(key_order) :
                                         /\ k[1] \in DOMAIN old.attestation_cache
                                         /\ sort_by_popcnt(old.attestation_cache[k[1]][k[2]])
                                               # old.attestation_cache[k[1]][k[2]]},
                                  !.dropped = ((DOMAIN attestation_cache)
                                                  \ DOMAIN old.attestation_cache)
                                              \cup ((DOMAIN seen_in_block)
                                                  \ DOMAIN old.seen_in_block)]

(* ------------------------------ BlockCache ----------------------------- *)
\* The blocks the driver can present.  A root is a number; the blocks are
\*   the genesis block (root 0, slot 0),
\*   a chain 1 .. ChainLen (block i at slot i, its parent block i-1),
\*   a second block at slot 1 on top of genesis (root ChainLen+1).
GenesisRoot == 0
ForkRoot == ChainLen + 1
\* parent_root of the genesis block: the hash of no block
ZeroRoot == ChainLen + 2

BlockOf ==
    [r \in 0..ForkRoot |->
        IF r = GenesisRoot THEN [slot |-> 0, parent_root |-> ZeroRoot, body |-> 0]
        ELSE IF r = ForkRoot THEN [slot |-> 1, parent_root |-> GenesisRoot, body |-> 1]
        ELSE [slot |-> r, parent_root |-> r - 1, body |-> 0]]

genesis == BlockOf[GenesisRoot]
\* the signed blocks handed to add_block, accept_block and chain_for_block
SignedBlocks == {BlockOf[r] : r \in 1..ForkRoot}

\* spec.hash_tree_root(block.message): the content hash, one root per block
hash_tree_root(block) == CHOOSE r \in DOMAIN BlockOf : BlockOf[r] = block

\* the root argument of add_block: None (the root is computed), or the root of
\* the first block of the chain, whatever the block is
RootArgs == {None, hash_tree_root(BlockOf[1])}
\* store.blocks of the external store passed to the chain queries
Stores == {{}, {GenesisRoot}, {GenesisRoot, hash_tree_root(BlockOf[1])}}

NoBlockCall == [op |-> "init", status |-> "ok", kargs |-> <<>>, root |-> None,
                store |-> {}, ret |-> <<>>, order |-> <<>>]

\* lines 114-122
BInit ==
    /\ blocks = (GenesisRoot :> genesis)
    /\ accepted = <<GenesisRoot>>
    /\ outstanding = {}
    /\ blast = NoBlockCall

\* lines 130-131: accepted is padded with None until it has an entry for slot
\* (entry of slot s is element s+1 of the sequence)
pad_accepted(acc, slot) ==
    IF Len(acc) <= slot THEN acc \o [i \in 1..(slot + 1 - Len(acc)) |-> None] ELSE acc

\* lines 124-137 with the block stored under its content hash whatever root is
add_block_store_under_hash(block, root) ==
    LET r == IF root = None THEN hash_tree_root(block) ELSE root
    IN /\ UNCHANGED avars
       /\ blocks' = Put(blocks, hash_tree_root(block), block)
       /\ IF r \in Range(accepted)
          THEN /\ UNCHANGED <<accepted, outstanding>>
               /\ blast' = [NoBlockCall EXCEPT !.op = "add_block", !.kargs = <<block>>,
                                               !.root = r]
          ELSE LET acc == pad_accepted(accepted, block.slot)
                   block_root_current_slot == acc[block.slot + 1]
               IN /\ accepted' = acc
                  /\ IF block_root_current_slot # None /\ ~(block_root_current_slot = r)
                     THEN /\ UNCHANGED outstanding
                          /\ blast' = [NoBlockCall EXCEPT !.op = "add_block",
                                           !.kargs = <<block>>, !.root = r,
                                           !.status = "ValueError"]
                     ELSE /\ outstanding' = outstanding \cup {r}
                          /\ blast' = [NoBlockCall EXCEPT !.op = "add_block",
                                           !.kargs = <<block>>, !.root = r]

\* lines 124-137 with the store of line 127 moved behind the check of lines 133-135
add_block_store_after_check(block, root) ==
    LET r == IF root = None THEN hash_tree_root(block) ELSE root
    IN /\ UNCHANGED avars
       /\ IF r \in Range(accepted)
          THEN /\ UNCHANGED <<blocks, accepted, outstanding>>
               /\ blast' = [NoBlockCall EXCEPT !.op = "add_block", !.kargs = <<block>>,
                                               !.root = r]
          ELSE LET acc == pad_accepted(accepted, block.slot)
                   block_root_current_slot == acc[block.slot + 1]
               IN /\ accepted' = acc
                  /\ IF block_root_current_slot # None /\ ~(block_root_current_slot = r)
                     THEN /\ UNCHANGED <<blocks, outstanding>>
                          /\ blast' = [NoBlockCall EXCEPT !.op = "add_block",
                                           !.kargs = <<block>>, !.root = r,
                                           !.status = "ValueError"]
                     ELSE /\ blocks' = Put(blocks, r, block)
                          /\ outstanding' = outstanding \cup {r}
                          /\ blast' = [NoBlockCall EXCEPT !.op = "add_block",
                                           !.kargs = <<block>>, !.root = r]

\* lines 124-137 without the check of lines 133-135
add_block_unchecked(block, root) ==
    LET r == IF root = None THEN hash_tree_root(block) ELSE root
    IN /\ UNCHANGED avars
       /\ blocks' = Put(blocks, r, block)
       /\ IF r \in Range(accepted)
          THEN /\ UNCHANGED <<accepted, outstanding>>
               /\ blast' = [NoBlockCall EXCEPT !.op = "add_block", !.kargs = <<block>>,
                                               !.root = r]
          ELSE /\ accepted' = pad_accepted(accepted, block.slot)
               /\ outstanding' = outstanding \cup {r}
               /\ blast' = [NoBlockCall EXCEPT !.op = "add_block", !.kargs = <<block>>,
                                               !.root = r]

\* lines 124-137
add_block(block, root) ==
    LET r == IF root = None THEN hash_tree_root(block) ELSE root
    IN /\ UNCHANGED avars
       /\ blocks' = Put(blocks, r, block)
       /\ IF r \in Range(accepted)
          THEN /\ UNCHANGED <<accepted, outstanding>>
               /\ blast' = [NoBlockCall EXCEPT !.op = "add_block", !.kargs = <<block>>,
                                               !.root = r]
          ELSE LET acc == pad_accepted(accepted, block.slot)
                   block_root_current_slot == acc[block.slot + 1]
               IN /\ accepted' = acc
                  /\ IF block_root_current_slot # None /\ ~(block_root_current_slot = r)
                     THEN /\ UNCHANGED outstanding
                          /\ blast' = [NoBlockCall EXCEPT !.op = "add_block",
                                           !.kargs = <<block>>, !.root = r,
                                           !.status = "ValueError"]
                     ELSE /\ outstanding' = outstanding \cup {r}
                          /\ blast' = [NoBlockCall EXCEPT !.op = "add_block",
                                           !.kargs = <<block>>, !.root = r]

\* lines 145-153 with the append before the recursive call
RECURSIVE chain_walk_append_first(_, _, _, _, _)
chain_walk_append_first(blks, block, root, store, depth) ==
    IF root \in store THEN [status |-> "ok", chain |-> <<>>]
    ELSE IF block.slot = 0 THEN [status |-> "ok", chain |-> <<>>]
    ELSE IF block.parent_root \notin DOMAIN blks THEN [status |-> "KeyError", chain |-> <<>>]
    ELSE IF depth > Cardinality(DOMAIN blks) THEN [status |-> "RecursionError", chain |-> <<>>]
    ELSE LET up == chain_walk_append_first(blks, blks[block.parent_root], block.parent_root,
                                           store, depth + 1)
         IN IF up.status = "ok" THEN [status |-> "ok", chain |-> <<block>> \o up.chain]
            ELSE up

\* lines 145-153 with a missing parent ending the walk like a known root
RECURSIVE chain_walk_lenient(_, _, _, _, _)
chain_walk_lenient(blks, block, root, store, depth) ==
    IF root \in store THEN [status |-> "ok", chain |-> <<>>]
    ELSE IF block.slot = 0 THEN [status |-> "ok", chain |-> <<>>]
    ELSE IF block.parent_root \notin DOMAIN blks THEN [status |-> "ok", chain |-> <<block>>]
    ELSE IF depth > Cardinality(DOMAIN blks) THEN [status |-> "RecursionError", chain |-> <<>>]
    ELSE LET up == chain_walk_lenient(blks, blks[block.parent_root], block.parent_root,
                                      store, depth + 1)
         IN IF up.status = "ok" THEN [status |-> "ok", chain |-> Append(up.chain, block)]
            ELSE up

\* lines 145-153, __chain_for_block.  The result is the list the call leaves in
\* chain, or the exception it raises.  depth counts the nested calls: a walk
\* that makes more nested calls than blocks has keys is on a cycle of
\* parent_root references, never returns, and ends when the interpreter's
\* recursion limit is hit (RecursionError).
RECURSIVE chain_walk(_, _, _, _, _)
chain_walk(blks, block, root, store, depth) ==
    IF root \in store THEN [status |-> "ok", chain |-> <<>>]
    ELSE IF block.slot = 0 THEN [status |-> "ok", chain |-> <<>>]
    ELSE IF block.parent_root \notin DOMAIN blks THEN [status |-> "KeyError", chain |-> <<>>]
    ELSE IF depth > Cardinality(DOMAIN blks) THEN [status |-> "RecursionError", chain |-> <<>>]
    ELSE LET up == chain_walk(blks, blks[block.parent_root], block.parent_root,
                              store, depth + 1)
         IN IF up.status = "ok" THEN [status |-> "ok", chain |-> Append(up.chain, block)]
            ELSE up

\* lines 139-143
chain_for_block(block, store) ==
    LET r == chain_walk(blocks, block, hash_tree_root(block), store, 0)
    IN /\ UNCHANGED avars
       /\ UNCHANGED <<blocks, accepted, outstanding>>
       /\ blast' = [NoBlockCall EXCEPT !.op = "chain_for_block", !.kargs = <<block>>,
                                       !.store = store, !.status = r.status,
                                       !.ret = r.chain]

\* lines 156-160 without the removal from outstanding
RECURSIVE accept_each_keep_outstanding(_, _, _)
accept_each_keep_outstanding(kargs, acc, out) ==
    IF kargs = <<>> THEN [status |-> "ok", accepted |-> acc, outstanding |-> out]
    ELSE LET block == Head(kargs)
             root == hash_tree_root(block)
         IN IF block.slot >= Len(acc)
            THEN [status |-> "IndexError", accepted |-> acc, outstanding |-> out]
            ELSE accept_each_keep_outstanding(Tail(kargs),
                                              [acc EXCEPT ![block.slot + 1] = root], out)

\* lines 156-160: the loop over kargs.  accepted[block.message.slot] = root on a
\* list that has no such index raises IndexError; the blocks before it stay accepted
RECURSIVE accept_each(_, _, _)
accept_each(kargs, acc, out) ==
    IF kargs = <<>> THEN [status |-> "ok", accepted |-> acc, outstanding |-> out]
    ELSE LET block == Head(kargs)
             root == hash_tree_root(block)
         IN IF block.slot >= Len(acc)
            THEN [status |-> "IndexError", accepted |-> acc, outstanding |-> out]
            ELSE accept_each(Tail(kargs), [acc EXCEPT ![block.slot + 1] = root],
                             out \ {root})

\* lines 155-160
accept_block(kargs) ==
    LET r == accept_each(kargs, accepted, outstanding)
    IN /\ UNCHANGED avars
       /\ blocks' = blocks
       /\ accepted' = r.accepted
       /\ outstanding' = r.outstanding
       /\ blast' = [NoBlockCall EXCEPT !.op = "accept_block", !.kargs = kargs,
                                       !.status = r.status]

\* lines 165-168 without the try: the KeyError of the walk is passed on
ochain_uncaught(blks, block, store) ==
    chain_walk(blks, block, hash_tree_root(block), store, 0)

\* lines 165-168: ochain of one outstanding block; the KeyError of
\* chain_for_block is caught and gives the empty chain, any other exception is
\* passed on
ochain_of(blks, block, store) ==
    LET walk == chain_walk(blks, block, hash_tree_root(block), store, 0)
    IN IF walk.status = "KeyError" THEN [status |-> "ok", chain |-> <<>>] ELSE walk

\* lines 163-170 with > for >= in the comparison of line 169
RECURSIVE longest_of_strict(_, _, _, _)
longest_of_strict(blks, order, store, chain) ==
    IF order = <<>> THEN [status |-> "ok", chain |-> chain]
    ELSE IF Head(order) \notin DOMAIN blks THEN [status |-> "KeyError", chain |-> <<>>]
    ELSE LET ochain == ochain_of(blks, blks[Head(order)], store)
         IN IF ochain.status # "ok" THEN [status |-> ochain.status, chain |-> <<>>]
            ELSE longest_of_strict(blks, Tail(order), store,
                                   IF Len(ochain.chain) > Len(chain)
                                   THEN ochain.chain ELSE chain)

\* lines 163-170: the loop over the outstanding roots in the order the set
\* iterates them; chain is the longest chain so far.  The lookup
\* self.blocks[oblock] of line 164 is outside the try.
RECURSIVE longest_of(_, _, _, _)
longest_of(blks, order, store, chain) ==
    IF order = <<>> THEN [status |-> "ok", chain |-> chain]
    ELSE IF Head(order) \notin DOMAIN blks THEN [status |-> "KeyError", chain |-> <<>>]
    ELSE LET ochain == ochain_of(blks, blks[Head(order)], store)
         IN IF ochain.status # "ok" THEN [status |-> ochain.status, chain |-> <<>>]
            ELSE longest_of(blks, Tail(order), store,
                            IF Len(ochain.chain) >= Len(chain)
                            THEN ochain.chain ELSE chain)

\* the orders a set can iterate its elements in
IterationOrders(set) ==
    {order \in [1..Cardinality(set) -> set] :
        \A i, j \in 1..Cardinality(set) : order[i] = order[j] => i = j}

\* lines 162-171; order is the iteration order of the set outstanding, which is
\* any order of its elements
longest_outstanding_chain(store) ==
    \E order \in IterationOrders(outstanding) :
       LET r == longest_of(blocks, order, store, <<>>)
       IN /\ UNCHANGED avars
          /\ UNCHANGED <<blocks, accepted, outstanding>>
          /\ blast' = [NoBlockCall EXCEPT !.op = "longest_outstanding_chain",
                                          !.store = store, !.order = order,
                                          !.status = r.status, !.ret = r.chain]

\* the argument lists of accept_block: none, one block, or a block and its child
AcceptArgs == {<<>>}
              \cup {<<b>> : b \in SignedBlocks \cup {genesis}}
              \cup {ka \in SignedBlocks \X SignedBlocks :
                       ka[2].parent_root = hash_tree_root(ka[1])}

Init == AInit /\ BInit

\* the calls on the AttestationCache
\* lines 61-66
attestations(max_slot) ==
    /\ UNCHANGED bvars
    /\ UNCHANGED <<attestation_cache, seen_in_block, added, key_order, history>>
    /\ alast' = [NoCall EXCEPT !.op = "attestations", !.slot = max_slot,
                               !.ret = triples(attestation_cache,
                                               iteration_order(key_order), max_slot)]

AttNext ==
    \/ \E a \in Attestations, fb \in BOOLEAN : add_attestation(a, fb)
    \/ \E s \in Slots, c \in Committees : attestations_with_unseen_validators(s, c)
    \/ \E a \in Attestations : remove_attestation(a.slot, a.index, a)
    \/ \E s \in CleanupSlots, k \in KeepSlots : cleanup(s, k)
    \/ \E m \in Slots : attestations(m)

\* the calls on the BlockCache
BlockNext ==
    \/ \E b \in SignedBlocks, r \in RootArgs : add_block(b, r)
    \/ \E b \in SignedBlocks \cup {genesis}, st \in Stores : chain_for_block(b, st)
    \/ \E ka \in AcceptArgs : accept_block(ka)
    \/ \E st \in Stores : longest_outstanding_chain(st)

\* add_attestation and cleanup on one committee of WideCommitteeSize positions
PruneNext ==
    \/ \E a \in WideAttestations, fb \in BOOLEAN : add_attestation(a, fb)
    \/ \E s \in CleanupSlots, k \in KeepSlots : cleanup(s, k)

\* the AttestationCache alone and the BlockCache alone: the two share no state
SpecAtt == Init /\ [][AttNext]_vars
SpecPrune == Init /\ [][PruneNext]_vars
SpecBlock == Init /\ [][BlockNext]_vars

(* ------------------- properties of the AttestationCache ---------------- *)
\* the participant positions of an attestation, read off its bits
Participants(attestation) ==
    {p \in 0..(Len(attestation.aggregation_bits) - 1) : attestation.aggregation_bits[p + 1]}

\* the participant positions of a list of attestations
Covered(list) == UNION {Participants(list[i]) : i \in DOMAIN list}

\* the elements of list at the indexes in K, in list order
Pick(list, K) ==
    LET F[i \in 0..Len(list)] ==
            IF i = 0 THEN <<>>
            ELSE IF i \in K THEN Append(F[i - 1], list[i]) ELSE F[i - 1]
    IN F[Len(list)]

CachedAt(slot, committee) ==
    IF slot \in DOMAIN attestation_cache /\ committee \in DOMAIN attestation_cache[slot]
    THEN attestation_cache[slot][committee] ELSE <<>>

SeenAt(slot, committee) ==
    IF slot \in DOMAIN seen_in_block /\ committee \in DOMAIN seen_in_block[slot]
    THEN seen_in_block[slot][committee] ELSE {}

\* C1: a cleanup step leaves, for every (slot, committee) still cached, the union
\* of the participant positions of the list what it was before the call: no
\* participant position, position 0 included, is lost.
C1_CoveragePreserved ==
    [][alast'.op = "cleanup" =>
         \A s \in DOMAIN attestation_cache' : \A c \in DOMAIN attestation_cache'[s] :
             Covered(attestation_cache'[s][c]) = Covered(attestation_cache[s][c])]_vars

\* C8: the sequence attestations_with_unseen_validators yields is the cached list
\* restricted to a set K of indexes, in list order, where an index is in K exactly
\* when its attestation has a participant position that is neither in
\* seen_in_block[slot][committee] nor in an attestation yielded before it; an
\* absent slot or committee gives the empty sequence; the call never fails.
C8_UnseenFilter ==
    alast.op = "attestations_with_unseen_validators" =>
        LET list == CachedAt(alast.slot, alast.committee)
            seen == SeenAt(alast.slot, alast.committee)
        IN /\ alast.status = "ok"
           /\ \E K \in SUBSET (DOMAIN list) :
                 /\ alast.ret = Pick(list, K)
                 /\ \A i \in DOMAIN list :
                       (i \in K) <=>
                       (Participants(list[i])
                          \ (seen \cup UNION {Participants(list[j]) : j \in {k \in K : k < i}})
                        # {})

\* C8 witness: a query that yielded some attestation and skipped another, on a
\* (slot, committee) that has positions seen in a block
C8_Witness ==
    /\ alast.op = "attestations_with_unseen_validators"
    /\ alast.ret # <<>>
    /\ Len(alast.ret) < Len(CachedAt(alast.slot, alast.committee))
    /\ SeenAt(alast.slot, alast.committee) # {}

\* C9: a call of attestations_with_unseen_validators leaves attestation_cache and
\* seen_in_block as they were, and a call that repeats the call before it (same
\* slot and committee, nothing in between) yields the same sequence.
C9_QueryIdempotent ==
    [][alast'.op = "attestations_with_unseen_validators" =>
         /\ attestation_cache' = attestation_cache
         /\ seen_in_block' = seen_in_block
         /\ alast'.again => alast'.ret = alast.ret]_vars

\* C9 witness: the second of two calls in a row, which yielded one attestation and
\* skipped another, with positions seen in a block
C9_Witness ==
    /\ alast.op = "attestations_with_unseen_validators"
    /\ alast.again
    /\ alast.ret # <<>>
    /\ Len(alast.ret) < Len(CachedAt(alast.slot, alast.committee))
    /\ SeenAt(alast.slot, alast.committee) # {}

\* C10: cleanup(slot, keep_slots) with slot > keep_slots leaves in attestation_cache
\* and in seen_in_block exactly the slot keys >= slot - keep_slots; with
\* slot <= keep_slots it removes no slot key.
C10_CleanupBoundary ==
    [][alast'.op = "cleanup" =>
         LET Kept(d) == IF alast'.slot > alast'.keep_slots
                        THEN {x \in DOMAIN d : x >= alast'.slot - alast'.keep_slots}
                        ELSE DOMAIN d
         IN /\ DOMAIN attestation_cache' = Kept(attestation_cache)
            /\ DOMAIN seen_in_block' = Kept(seen_in_block)]_vars

\* C10 witness: a cleanup that dropped a slot key and retained the key
\* slot - keep_slots in both mappings
C10_Witness ==
    /\ alast.op = "cleanup"
    /\ alast.slot > alast.keep_slots
    /\ alast.dropped # {}
    /\ (alast.slot - alast.keep_slots) \in DOMAIN attestation_cache
    /\ (alast.slot - alast.keep_slots) \in DOMAIN seen_in_block

\* C10 witness of the other branch: a cleanup with slot <= keep_slots on a cache
\* that holds slot keys
C10_WitnessNoop ==
    /\ alast.op = "cleanup"
    /\ alast.slot <= alast.keep_slots
    /\ DOMAIN attestation_cache # {}

\* the attestation the last add_attestation or remove_attestation was called with
LastAttestation(call) ==
    [slot |-> call.slot, index |-> call.committee, aggregation_bits |-> call.bits]

\* the set seen_in_block[slot][committee] of a mapping, empty when the key is absent
SeenOf(seen, slot, committee) ==
    IF slot \in DOMAIN seen /\ committee \in DOMAIN seen[slot]
    THEN seen[slot][committee] ELSE {}

\* C11: an add_attestation step removes no position from any set of
\* seen_in_block; with from_block true the set of the attestation's slot and
\* committee becomes its union with the participant positions of the attestation
\* and every other set stays as it was; with from_block false seen_in_block is
\* unchanged.
C11_SeenMonotonic ==
    [][alast'.op = "add_attestation" =>
         LET a == LastAttestation(alast')
         IN /\ \A s \in Slots, c \in Committees :
                  SeenOf(seen_in_block, s, c) \subseteq SeenOf(seen_in_block', s, c)
            /\ IF alast'.from_block
               THEN \A s \in Slots, c \in Committees :
                       SeenOf(seen_in_block', s, c) =
                          IF s = a.slot /\ c = a.index
                          THEN SeenOf(seen_in_block, s, c) \cup Participants(a)
                          ELSE SeenOf(seen_in_block, s, c)
               ELSE seen_in_block' = seen_in_block]_vars

\* C11 witness: an add_attestation from a block whose set held, and still holds, a
\* position the new attestation does not have
C11_Witness ==
    /\ alast.op = "add_attestation"
    /\ alast.from_block
    /\ Participants(LastAttestation(alast)) # {}
    /\ SeenAt(alast.slot, alast.committee) \ Participants(LastAttestation(alast)) # {}

\* the attestations of a sequence of add_attestation calls that went to one
\* (slot, committee), as the triples attestations() yields
AddedTriples(adds, slot, committee) ==
    LET at == SelectSeq(adds, LAMBDA a : a.slot = slot /\ a.index = committee)
    IN [i \in DOMAIN at |-> <<slot, committee, at[i]>>]

\* C12: as long as the cache has only seen add_attestation calls,
\* attestations(max_slot) yields, for every (slot, committee) with
\* slot <= max_slot, the attestations of the calls for it in call order, one
\* triple per call, and no triple for a slot > max_slot.
C12_AttestationsListing ==
    (alast.op = "attestations" /\ history.intact) =>
        LET max_slot == alast.slot
        IN /\ \A i \in DOMAIN alast.ret : alast.ret[i][1] <= max_slot
           /\ \A s \in Slots, c \in Committees :
                 SelectSeq(alast.ret, LAMBDA t : t[1] = s /\ t[2] = c) =
                    IF s <= max_slot THEN AddedTriples(history.adds, s, c) ELSE <<>>
           /\ Len(alast.ret) =
                 Len(SelectSeq(history.adds, LAMBDA a : a.slot <= max_slot))

\* C12 witness: after two add_attestation calls, one for a slot above max_slot, the
\* listing holds the triple of the other one only
C12_Witness ==
    /\ alast.op = "attestations"
    /\ history.intact
    /\ Len(history.adds) = 2
    /\ Len(alast.ret) = 1

\* C12, second case: two calls with equal attestations give two equal triples
C12_WitnessDuplicate ==
    /\ alast.op = "attestations"
    /\ history.intact
    /\ Len(alast.ret) = 2
    /\ alast.ret[1] = alast.ret[2]

\* C14: a remove_attestation step leaves seen_in_block and every other list as
\* they were; when the slot or the committee is no key it fails with KeyError,
\* when the attestation is not in the list it fails with ValueError, and in both
\* cases the cache is unchanged; otherwise the list loses the first element equal
\* to the attestation and nothing else.
C14_RemoveOne ==
    [][alast'.op = "remove_attestation" =>
         LET s == alast'.slot
             c == alast'.committee
             a == LastAttestation(alast')
         IN /\ seen_in_block' = seen_in_block
            /\ IF s \notin DOMAIN attestation_cache
                  \/ c \notin DOMAIN attestation_cache[s]
               THEN alast'.status = "KeyError" /\ attestation_cache' = attestation_cache
               ELSE LET list == attestation_cache[s][c]
                    IN IF \A i \in DOMAIN list : list[i] # a
                       THEN /\ alast'.status = "ValueError"
                            /\ attestation_cache' = attestation_cache
                       ELSE /\ alast'.status = "ok"
                            /\ \E i \in DOMAIN list :
                                  /\ list[i] = a
                                  /\ \A j \in 1..(i - 1) : list[j] # a
                                  /\ attestation_cache' =
                                        [attestation_cache EXCEPT ![s][c] =
                                            SubSeq(list, 1, i - 1)
                                               \o SubSeq(list, i + 1, Len(list))]]_vars

\* C14 witness: a successful remove_attestation after which an equal attestation
\* is still in the list
C14_Witness ==
    /\ alast.op = "remove_attestation"
    /\ alast.status = "ok"
    /\ LastAttestation(alast) \in Range(CachedAt(alast.slot, alast.committee))

\* C14, the failing cases: not in a list that exists, and no such key
C14_WitnessNotFound ==
    /\ alast.op = "remove_attestation"
    /\ alast.status = "ValueError"
    /\ CachedAt(alast.slot, alast.committee) # <<>>

\* the elements of list at the indexes in K, by falling participant count and,
\* among equal counts, by rising index
Arrange(list, K) ==
    LET Before(j, i) ==
            \/ Cardinality(Participants(list[j])) > Cardinality(Participants(list[i]))
            \/ /\ Cardinality(Participants(list[j])) = Cardinality(Participants(list[i]))
               /\ j < i
        Rank(i) == 1 + Cardinality({j \in K : Before(j, i)})
    IN [p \in 1..Cardinality(K) |-> list[CHOOSE i \in K : Rank(i) = p]]

\* C16: a cleanup step leaves in every (slot, committee) list a selection of the
\* elements the list held, in the order of non-increasing participant count with
\* ties in their order in the list before, and every element left has a
\* participant position that no element left before it has.
C16_PrunedSublist ==
    [][alast'.op = "cleanup" =>
         \A s \in DOMAIN attestation_cache' : \A c \in DOMAIN attestation_cache'[s] :
            LET before == attestation_cache[s][c]
                after == attestation_cache'[s][c]
            IN /\ \E K \in SUBSET (DOMAIN before) : after = Arrange(before, K)
               /\ \A p \in DOMAIN after :
                     Participants(after[p]) \ Covered(SubSeq(after, 1, p - 1)) # {}]_vars

\* C16 witness: a cleanup whose sort reordered a list and which left two
\* attestations in that list
C16_Witness ==
    /\ alast.op = "cleanup"
    /\ \E k \in alast.resorted : Len(CachedAt(k[1], k[2])) = 2

\* C16, second case: a cleanup that left two attestations of equal participant
\* count in a list
C16_WitnessTie ==
    /\ alast.op = "cleanup"
    /\ \E s \in Slots :
          LET list == CachedAt(s, 0)
          IN /\ Len(list) = 2
             /\ Cardinality(Participants(list[1])) = Cardinality(Participants(list[2]))

\* C19: the participant positions of the attestations a call of
\* attestations_with_unseen_validators yields, together with
\* seen_in_block[slot][committee], include every participant position of every
\* attestation cached for that slot and committee.
C19_YieldedAndSeenCover ==
    alast.op = "attestations_with_unseen_validators" =>
        Covered(CachedAt(alast.slot, alast.committee))
           \subseteq (Covered(alast.ret) \cup SeenAt(alast.slot, alast.committee))

\* C19 witness: a query where neither the yielded attestations nor the seen set
\* alone cover the cached positions
C19_Witness ==
    /\ alast.op = "attestations_with_unseen_validators"
    /\ ~(Covered(CachedAt(alast.slot, alast.committee)) \subseteq Covered(alast.ret))
    /\ ~(Covered(CachedAt(alast.slot, alast.committee))
            \subseteq SeenAt(alast.slot, alast.committee))

(* ---------------------- properties of the BlockCache ------------------- *)
\* The walk of chain_for_block(b, store) written as a path: element 1 is b under
\* its own root, element i+1 is the block stored in blocks under the parent_root
\* of element i; the path ends where that parent_root is no key of blocks, or
\* after one element more than blocks has keys (a longer walk is on a cycle).
RECURSIVE ExtendPath(_, _)
ExtendPath(path, n) ==
    LET parent == path[Len(path)].block.parent_root
    IN IF n = 0 \/ parent \notin DOMAIN blocks THEN path
       ELSE ExtendPath(Append(path, [root |-> parent, block |-> blocks[parent]]), n - 1)

AncestorPath(b) ==
    ExtendPath(<<[root |-> hash_tree_root(b), block |-> b]>>, Cardinality(DOMAIN blocks) + 1)

\* the walk ends at this element: its root is known to the store, or it is at slot 0
EndsWalk(e, store) == e.root \in store \/ e.block.slot = 0

\* every ancestor of b back to a store-known or slot-0 block is in blocks
Buildable(b, store) ==
    LET P == AncestorPath(b)
    IN \E i \in DOMAIN P : EndsWalk(P[i], store)

\* the blocks of the path before its first end, oldest first
ExpectedChain(b, store) ==
    LET P == AncestorPath(b)
        k == CHOOSE i \in DOMAIN P :
                 EndsWalk(P[i], store) /\ \A j \in 1..(i - 1) : ~EndsWalk(P[j], store)
    IN [j \in 1..(k - 1) |-> P[k - j].block]

\* the walk reaches, before any end, a block whose parent_root is no key of blocks
MissingAncestor(b, store) ==
    LET P == AncestorPath(b)
    IN \E i \in DOMAIN P :
          /\ \A j \in 1..i : ~EndsWalk(P[j], store)
          /\ P[i].block.parent_root \notin DOMAIN blocks

\* C2 as stated: after an add_block of a block at a slot > 0 that went through, an
\* add_block of a block at the same slot with another root raises the conflict
\* error and its root is not put into outstanding.
C2_SecondBlockConflicts ==
    [][(/\ blast.op = "add_block" /\ blast.status = "ok"
        /\ blast.kargs[1].slot > 0
        /\ blast'.op = "add_block"
        /\ blast'.kargs[1].slot = blast.kargs[1].slot
        /\ blast'.root # blast.root)
       => (blast'.status = "ValueError" /\ blast'.root \notin outstanding')]_vars

\* C2 amended: add_block of a root that is no entry of accepted raises the
\* conflict error, leaving accepted and outstanding as they were, exactly when the
\* entry of accepted for the block's slot holds another root (a block was
\* ACCEPTED there); when that entry is empty or missing the call goes through and
\* puts the root into outstanding, whatever outstanding holds for that slot.
C2_ConflictWithAccepted ==
    [][blast'.op = "add_block" =>
         LET b == blast'.kargs[1]
             r == blast'.root
             occupied == b.slot < Len(accepted) /\ accepted[b.slot + 1] \notin {None, r}
         IN r \notin Range(accepted) =>
               IF occupied
               THEN /\ blast'.status = "ValueError"
                    /\ outstanding' = outstanding
                    /\ accepted' = accepted
               ELSE /\ blast'.status = "ok"
                    /\ outstanding' = outstanding \cup {r}]_vars

\* C2 witness: add_block of a block under its own root raised the conflict error
\* at a slot > 0 where another block of the cache is accepted
C2_Witness ==
    /\ blast.op = "add_block"
    /\ blast.status = "ValueError"
    /\ blast.kargs[1].slot > 0
    /\ blast.root = hash_tree_root(blast.kargs[1])
    /\ accepted[blast.kargs[1].slot + 1] \in DOMAIN blocks

\* two roots of blocks at the same slot > 0 are outstanding side by side
C2_WitnessAdmitted ==
    \E r1 \in outstanding, r2 \in outstanding :
        r1 # r2 /\ blocks[r1].slot = blocks[r2].slot /\ blocks[r1].slot > 0

\* C3: when every ancestor of b back to a store-known or slot-0 block is in
\* blocks, chain_for_block(b, store) returns the blocks of the parent_root path
\* after that ancestor, oldest first: b is last, each element is the block stored
\* under the parent_root of the next, and no element was reached under a root the
\* store knows.
C3_ChainReconstruction ==
    (blast.op = "chain_for_block" /\ Buildable(blast.kargs[1], blast.store)) =>
        LET b == blast.kargs[1]
            chain == blast.ret
        IN /\ blast.status = "ok"
           /\ chain = ExpectedChain(b, blast.store)
           /\ chain # <<>> => (chain[Len(chain)] = b
                               /\ hash_tree_root(b) \notin blast.store)
           /\ \A j \in 2..Len(chain) :
                 /\ chain[j].parent_root \in DOMAIN blocks
                 /\ blocks[chain[j].parent_root] = chain[j - 1]
                 /\ chain[j].parent_root \notin blast.store

\* C3 witness: genesis -> 1 -> 2 -> 3 with the store knowing genesis alone gives
\* the chain <<1, 2, 3>>
C3_Witness ==
    /\ blast.op = "chain_for_block"
    /\ blast.store = {GenesisRoot}
    /\ blast.kargs = <<BlockOf[3]>>
    /\ blast.ret = <<BlockOf[1], BlockOf[2], BlockOf[3]>>

\* C4: when the walk reaches a block that ends no walk and whose parent_root is
\* no key of blocks, chain_for_block raises KeyError and returns no chain.
C4_MissingAncestor ==
    (blast.op = "chain_for_block" /\ MissingAncestor(blast.kargs[1], blast.store)) =>
        (blast.status = "KeyError" /\ blast.ret = <<>>)

\* C4 witness: a walk that failed at an ancestor, not at the block itself
C4_Witness ==
    /\ blast.op = "chain_for_block"
    /\ blast.status = "KeyError"
    /\ blast.kargs[1].parent_root \in DOMAIN blocks

\* C5: every entry of accepted that is not empty is a key of blocks.
C5_AcceptedInBlocks ==
    \A i \in DOMAIN accepted : accepted[i] # None => accepted[i] \in DOMAIN blocks

\* C6: no root is in outstanding and an entry of accepted.
C6_OutstandingAcceptedDisjoint ==
    outstanding \cap Range(accepted) = {}

\* C6 witness: a block that had been added is accepted while another root is
\* outstanding
C6_Witness ==
    /\ blast.op = "accept_block"
    /\ blast.status = "ok"
    /\ Len(blast.kargs) = 1
    /\ hash_tree_root(blast.kargs[1]) \in DOMAIN blocks
    /\ blast.kargs[1].slot > 0
    /\ accepted[blast.kargs[1].slot + 1] = hash_tree_root(blast.kargs[1])
    /\ outstanding # {}

\* C7: accept_block(b) ends without an error, with the entry of accepted for the
\* slot of b equal to the root of b and that root not in outstanding, whatever
\* the length of accepted was.
C7_AcceptSetsEntry ==
    (blast.op = "accept_block" /\ Len(blast.kargs) = 1) =>
        LET b == blast.kargs[1]
        IN /\ blast.status = "ok"
           /\ b.slot < Len(accepted)
           /\ accepted[b.slot + 1] = hash_tree_root(b)
           /\ hash_tree_root(b) \notin outstanding

\* the chain chain_for_block gives for the block stored under root r, the empty
\* chain when it is not buildable
ChainOf(r, store) ==
    IF Buildable(blocks[r], store) THEN ExpectedChain(blocks[r], store) ELSE <<>>

\* the walk from the block stored under r ends at a store-known or slot-0 block
\* or at a missing ancestor: it is on no cycle
Acyclic(r, store) == Buildable(blocks[r], store) \/ MissingAncestor(blocks[r], store)

\* C13: longest_outstanding_chain(store) never raises KeyError; when no walk
\* from an outstanding block is on a cycle it returns, a block with a missing
\* ancestor counting as the empty chain, and the chain it returns is at least as
\* long as the chain of every outstanding block whose chain is buildable; with
\* nothing outstanding it returns the empty chain.
C13_MissingAncestorSkipped ==
    blast.op = "longest_outstanding_chain" =>
        /\ blast.status # "KeyError"
        /\ (\A r \in outstanding : Acyclic(r, blast.store)) => blast.status = "ok"
        /\ outstanding = {} => blast.ret = <<>>
        /\ blast.status = "ok" =>
              \A r \in outstanding :
                 Buildable(blocks[r], blast.store) =>
                    Len(blast.ret) >= Len(ExpectedChain(blocks[r], blast.store))

\* C13 witness: a call that returned a non-empty chain while an outstanding block
\* has a missing ancestor
C13_Witness ==
    /\ blast.op = "longest_outstanding_chain"
    /\ blast.status = "ok"
    /\ blast.ret # <<>>
    /\ \E r \in outstanding : MissingAncestor(blocks[r], blast.store)

\* C15 as stated: an add_block whose root is no entry of accepted and whose slot
\* holds another root in accepted raises the conflict error; after the error the
\* root is not in outstanding, accepted is as before and the block is stored
\* under the root.
C15_ConflictLeavesRootOut ==
    [][blast'.op = "add_block" =>
         LET b == blast'.kargs[1]
             r == blast'.root
             occupied == b.slot < Len(accepted) /\ accepted[b.slot + 1] \notin {None, r}
         IN /\ (occupied /\ r \notin Range(accepted)) => blast'.status = "ValueError"
            /\ blast'.status = "ValueError" =>
                  /\ r \notin outstanding'
                  /\ accepted' = accepted
                  /\ r \in DOMAIN blocks' /\ blocks'[r] = b]_vars

\* C15 amended: an add_block raises the conflict error exactly when its root is
\* no entry of accepted and its slot holds another root in accepted; the failing
\* call stores the block under the root, overwriting, changes nothing else in
\* blocks and leaves accepted and outstanding as they were.
C15_ConflictStoresBlockOnly ==
    [][blast'.op = "add_block" =>
         LET b == blast'.kargs[1]
             r == blast'.root
             occupied == b.slot < Len(accepted) /\ accepted[b.slot + 1] \notin {None, r}
         IN /\ blast'.status = "ValueError" <=> (occupied /\ r \notin Range(accepted))
            /\ blast'.status = "ValueError" =>
                  /\ outstanding' = outstanding
                  /\ accepted' = accepted
                  /\ DOMAIN blocks' = DOMAIN blocks \cup {r}
                  /\ \A k \in DOMAIN blocks' :
                        blocks'[k] = IF k = r THEN b ELSE blocks[k]]_vars

\* C15 witness: add_block raised the conflict error for a root that an earlier
\* add_block had put into outstanding, where it still is
C15_Witness ==
    /\ blast.op = "add_block"
    /\ blast.status = "ValueError"
    /\ blast.root \in outstanding
    /\ blocks[blast.root] = blast.kargs[1]

\* the positions of order whose root has a chain of the largest length
Longest(order, store) ==
    {i \in DOMAIN order :
        \A j \in DOMAIN order : Len(ChainOf(order[j], store)) <= Len(ChainOf(order[i], store))}

\* C17 as stated: the chain longest_outstanding_chain returns is the chain of the
\* first root, in iteration order, whose chain has the largest length.
C17_FirstLongestWins ==
    (blast.op = "longest_outstanding_chain" /\ blast.status = "ok" /\ blast.order # <<>>) =>
        LET L == Longest(blast.order, blast.store)
            first == CHOOSE i \in L : \A j \in L : i <= j
        IN blast.ret = ChainOf(blast.order[first], blast.store)

\* C17 amended: the chain longest_outstanding_chain returns is the chain of the
\* last root, in iteration order, whose chain has the largest length: a later
\* chain of equal length replaces an earlier one.
C17_LastLongestWins ==
    (blast.op = "longest_outstanding_chain" /\ blast.status = "ok" /\ blast.order # <<>>) =>
        LET L == Longest(blast.order, blast.store)
            last == CHOOSE i \in L : \A j \in L : j <= i
        IN blast.ret = ChainOf(blast.order[last], blast.store)

\* C17 witness: a call that returned while two outstanding roots have different
\* chains of the largest length
C17_Witness ==
    /\ blast.op = "longest_outstanding_chain"
    /\ blast.status = "ok"
    /\ \E i, j \in Longest(blast.order, blast.store) :
          ChainOf(blast.order[i], blast.store) # ChainOf(blast.order[j], blast.store)

\* C18: chain_for_block and longest_outstanding_chain end by returning a chain
\* or, for chain_for_block, by raising the missing-ancestor KeyError: no call
\* keeps walking a cycle of parent_root references.
C18_WalkTerminates ==
    blast.op \in {"chain_for_block", "longest_outstanding_chain"} =>
        blast.status \in {"ok", "KeyError"}

\* C20: every step leaves every root of outstanding a key of blocks and removes
\* no key from blocks, and longest_outstanding_chain never raises KeyError.
C20_OutstandingStored ==
    [][/\ outstanding' \subseteq DOMAIN blocks'
       /\ DOMAIN blocks \subseteq DOMAIN blocks'
       /\ blast'.op = "longest_outstanding_chain" => blast'.status # "KeyError"]_vars

\* C20 witness: longest_outstanding_chain looked up two outstanding roots, one of
\* them a root add_block was given for a block with another content hash
C20_Witness ==
    /\ blast.op = "longest_outstanding_chain"
    /\ Len(blast.order) >= 2
    /\ \E i \in DOMAIN blast.order :
          hash_tree_root(blocks[blast.order[i]]) # blast.order[i]
====
